---- MODULE Spec2Model ----
(***************************************************************************)
(* Baseball scorecard: the per-cell derivation engine of ScorecardPage     *)
(* (pitch counting, outcome inference, baserunner path construction, out   *)
(* propagation).  Rows are batters, columns are innings.  Rows and columns *)
(* are 1-based here (the source is 0-based), so a cell's batting-order     *)
(* number (batterNumber = r + 1 in the source) is its row r.               *)
(***************************************************************************)
EXTENDS Integers, Sequences, FiniteSets, TLC

\* ------------------------------------------------------------------ bounds
\* players in the lineup (rows of the grid)
NumRows == 2
\* inning columns modelled (the source has INNINGS = 9 of them)
NumInnings == 2
\* pitch marks of a plate appearance, in the counting specification
MaxCountLen == 5
\* pitch marks of a plate appearance, in the pitch specification
MaxPitches == 4
\* pitch marks of a plate appearance, in the award specification
MaxAwardPitches == 4
\* run segments of a plate appearance
MaxSegs == 3
\* cells of the card that carry an out stamp at the same time
MaxStamped == 3

\* pitch marks of a plate appearance, in the reset specification
MaxResetPitches == 2

\* run segments on the whole card, in the scoring specification
MaxGridSegs == 2

\* ms of clock time, in the expiry specification
MaxNow == 3750

\* ms after which no more keys are pressed, in the expiry specification
LastKeyAt == 250

Rows == 1..NumRows
Cols == 1..NumInnings
Bases == 0..4

\* ------------------------------------------------------------------ types
PitchMark == {"B", "CS", "SS", "F", "D"}

\* '-' stands for the source's em dash (no outcome)
Outcome == {"-", "In Play", "Walk", "HBP", "K", "1B", "2B", "3B", "HR", "Out"}

RunKind == {"hit", "advance", "error", "award"}

\* optional fields of the source that are absent
NoBatter == 0
NoText == ""
NoAward == "none"

\* note texts a user types (NoText: nothing typed)
Texts == {NoText, "n"}

RunSeg(from, to, kind, byBatter, note, award) ==
    [from |-> from, to |-> to, kind |-> kind, byBatter |-> byBatter,
     note |-> note, award |-> award]

\* one cell as makeEmptyRow builds it (pathColor is never written: left out)
EmptyCell ==
    [pitchSeq |-> <<>>, outcome |-> "-", bases |-> 0, outs |-> 0,
     notes |-> NoText, runs |-> <<>>]

makeEmptyRow == [c \in Cols |-> EmptyCell]

Min(a, b) == IF a < b THEN a ELSE b

\* ------------------------------------------------------------------ storage
\* A value as JSON.parse returns it: its JavaScript type t and its content v.
JUndefined == [t |-> "undefined", v |-> 0]
JNull == [t |-> "null", v |-> 0]
JNumber(n) == [t |-> "number", v |-> n]
JString(s) == [t |-> "string", v |-> s]
JArray(seq) == [t |-> "array", v |-> seq]
JObject(fields) == [t |-> "object", v |-> fields]

\* obj[name] of a parsed value: undefined when there is no such property
Prop(obj, name) ==
    IF obj.t = "object" /\ name \in DOMAIN obj.v THEN obj.v[name] ELSE JUndefined

\* JSON.parse(JSON.stringify(cell)) of a cell of the grid
stringifyCell(cell) ==
    JObject([pitchSeq |-> JArray(cell.pitchSeq), outcome |-> JString(cell.outcome),
             bases |-> JNumber(cell.bases), outs |-> JNumber(cell.outs),
             notes |-> JString(cell.notes), runs |-> JArray(cell.runs)])

\* JSON.parse(JSON.stringify(grid))
stringifyGrid(g) ==
    JArray([r \in 1..Len(g) |-> JArray([c \in Cols |-> stringifyCell(g[r][c])])])

\* normalizeCell: a stored cell made well-formed field by field
normalizeCell(c) ==
    LET obj == IF c.t \in {"object", "array"} THEN c ELSE JObject(<<>>)
        pitchSeq == Prop(obj, "pitchSeq")
        outcome == Prop(obj, "outcome")
        bases == Prop(obj, "bases")
        outs == Prop(obj, "outs")
        notes == Prop(obj, "notes")
        runs == Prop(obj, "runs")
    IN  [pitchSeq |-> IF pitchSeq.t = "array" THEN pitchSeq.v ELSE <<>>,
         outcome  |-> IF outcome.t \in {"undefined", "null"} THEN "-" ELSE outcome.v,
         bases    |-> IF bases.t = "number" THEN bases.v ELSE 0,
         outs     |-> IF outs.t = "number" THEN outs.v ELSE 0,
         notes    |-> IF notes.t = "string" THEN notes.v ELSE NoText,
         runs     |-> IF runs.t = "array" THEN runs.v ELSE <<>>]

\* normalizeGrid: `rows` rows of one normalized cell per inning
normalizeGrid(g, rows) ==
    LET grd == IF g.t = "array" THEN g.v ELSE <<>>
    IN  [r \in 1..rows |->
            LET row == IF r <= Len(grd) /\ grd[r].t = "array" THEN grd[r].v ELSE <<>>
            IN  [c \in Cols |-> normalizeCell(IF c <= Len(row) THEN row[c] ELSE JUndefined)]]

\* ------------------------------------------------------------------ count engine
RECURSIVE countStrikesLoop(_, _, _)
countStrikesLoop(seq, i, s) ==
    IF i > Len(seq) THEN s
    ELSE LET m == seq[i]
             s1 == IF m = "CS" \/ m = "SS" THEN s + 1
                   ELSE IF m = "F" THEN (IF s < 2 THEN s + 1 ELSE s)
                   ELSE s
         IN  IF s1 >= 3 THEN 3 ELSE countStrikesLoop(seq, i + 1, s1)

\* mutant: a foul also completes the third strike
RECURSIVE countStrikesFoulLoop(_, _, _)
countStrikesFoulLoop(seq, i, s) ==
    IF i > Len(seq) THEN s
    ELSE LET m == seq[i]
             s1 == IF m = "CS" \/ m = "SS" \/ m = "F" THEN s + 1 ELSE s
         IN  IF s1 >= 3 THEN 3 ELSE countStrikesFoulLoop(seq, i + 1, s1)

countStrikesFoulOut(seq) == countStrikesFoulLoop(seq, 1, 0)

countStrikes(seq) == countStrikesLoop(seq, 1, 0)

countBalls(seq) == Len(SelectSeq(seq, LAMBDA m : m = "B"))

hasDeadBall(seq) == \E i \in 1..Len(seq) : seq[i] = "D"

\* ------------------------------------------------------------------ outcome <-> path
hitOutcomeFrom(to) ==
    IF to = 1 THEN "1B" ELSE IF to = 2 THEN "2B" ELSE IF to = 3 THEN "3B" ELSE "HR"

\* mutant: a home run opens with a triple's segment
firstRunForOutcomeShort(o, by) ==
    IF o \in {"1B", "2B", "3B", "HR"}
    THEN <<RunSeg(0, IF o = "1B" THEN 1 ELSE IF o = "2B" THEN 2 ELSE 3,
                  "hit", by, NoText, NoAward)>>
    ELSE IF o = "Walk" THEN <<RunSeg(0, 1, "award", by, NoText, "Walk")>>
    ELSE IF o = "HBP" THEN <<RunSeg(0, 1, "award", by, NoText, "HBP")>>
    ELSE <<>>

firstRunForOutcome(o, by) ==
    IF o \in {"1B", "2B", "3B", "HR"}
    THEN <<RunSeg(0, IF o = "1B" THEN 1 ELSE IF o = "2B" THEN 2
                     ELSE IF o = "3B" THEN 3 ELSE 4,
                  "hit", by, NoText, NoAward)>>
    ELSE IF o = "Walk" THEN <<RunSeg(0, 1, "award", by, NoText, "Walk")>>
    ELSE IF o = "HBP" THEN <<RunSeg(0, 1, "award", by, NoText, "HBP")>>
    ELSE <<>>

maybeSyncOutcomeFromRuns(runs, prevOutcome) ==
    IF Len(runs) > 0 /\ runs[1].from = 0
    THEN IF runs[1].kind = "hit" THEN hitOutcomeFrom(runs[1].to)
         ELSE IF runs[1].kind = "award"
              THEN (IF runs[1].award = NoAward THEN "Walk" ELSE runs[1].award)
              ELSE prevOutcome
    ELSE prevOutcome

\* mutant: the filter also keeps the segments that start at the plate
laterFromPlate(runs) == SelectSeq(runs, LAMBDA seg : seg.from >= 0)

\* the segments kept when the opening segment is replaced
later(runs) == SelectSeq(runs, LAMBDA seg : seg.from > 0)

\* BigCell.onOutcomeChange: the cell after the outcome select picks o
onOutcomeChange(merged, o, batterNumber) ==
    LET opening == firstRunForOutcome(o, batterNumber)
        nextRuns == opening \o later(merged.runs)
        newBases == IF Len(opening) > 0 THEN opening[1].to ELSE merged.bases
    IN  [merged EXCEPT !.outcome = o, !.runs = nextRuns, !.bases = newBases]

\* ------------------------------------------------------------------ baserunner path
\* variant of addRunSegment without the quick extension: every click appends
addRunSegmentAppend(merged, lc, rapid, kind, meta) ==
    LET runs == merged.runs
        lastTo == IF Len(runs) > 0 THEN runs[Len(runs)].to ELSE 0
        from == IF lastTo <= 3 THEN lastTo ELSE 3
        to == Min(4, from + 1)
        awardType == IF meta.note = "HBP" THEN "HBP" ELSE "Walk"
        seg == IF kind = "award"
               THEN RunSeg(from, to, kind, meta.byBatter, meta.note, awardType)
               ELSE RunSeg(from, to, kind, meta.byBatter, meta.note, NoAward)
        nextRuns == Append(runs, seg)
        nextOutcome == IF kind = "hit" THEN hitOutcomeFrom(to)
                       ELSE IF kind = "award" THEN awardType
                       ELSE maybeSyncOutcomeFromRuns(nextRuns, merged.outcome)
    IN  [cell |-> [merged EXCEPT !.runs = nextRuns, !.bases = to, !.outcome = nextOutcome],
         lc |-> kind]

\* BigCell.addRunSegment: kind and meta come from the diamond click, lc is
\* lastClickRef.current's kind ("none" when null) and rapid says whether the
\* click comes less than 350 ms after it.  Yields the cell and the new ref.
addRunSegment(merged, lc, rapid, kind, meta) ==
    LET runs == merged.runs
        lastTo == IF Len(runs) > 0 THEN runs[Len(runs)].to ELSE 0
        from == IF lastTo <= 3 THEN lastTo ELSE 3
        last == runs[Len(runs)]
    IN  IF lc = kind /\ rapid /\ Len(runs) > 0 /\ last.to = from /\ last.to < 4
        THEN LET extended == [last EXCEPT !.to = Min(4, last.to + 1)]
                 nextRuns == SubSeq(runs, 1, Len(runs) - 1) \o <<extended>>
             IN  [cell |-> [merged EXCEPT
                              !.runs = nextRuns,
                              !.bases = extended.to,
                              !.outcome = maybeSyncOutcomeFromRuns(nextRuns, merged.outcome)],
                  lc |-> kind]
        ELSE LET to == Min(4, from + 1)
                 awardType == IF meta.note = "HBP" THEN "HBP" ELSE "Walk"
                 seg == IF kind = "award"
                        THEN RunSeg(from, to, kind, meta.byBatter, meta.note, awardType)
                        ELSE RunSeg(from, to, kind, meta.byBatter, meta.note, NoAward)
                 nextRuns == Append(runs, seg)
                 nextOutcome == IF kind = "hit" THEN hitOutcomeFrom(to)
                                ELSE IF kind = "award" THEN awardType
                                ELSE maybeSyncOutcomeFromRuns(nextRuns, merged.outcome)
             IN  [cell |-> [merged EXCEPT
                              !.runs = nextRuns, !.bases = to, !.outcome = nextOutcome],
                  lc |-> kind]

\* ------------------------------------------------------------------ pitch update
\* The PitchTracker onChange handler of BigCell: the cell it writes for the new
\* sequence, and whether it calls onNextOut afterwards.
onPitchChange(merged, seq, batterNumber) ==
    LET strikes == countStrikes(seq)
        balls == countBalls(seq)
        dead == hasDeadBall(seq)
        nextOutcome == IF strikes >= 3 /\ merged.outcome # "K" THEN "K"
                       ELSE IF dead /\ merged.outcome # "HBP" THEN "HBP"
                       ELSE IF balls >= 4 /\ merged.outcome # "Walk" THEN "Walk"
                       ELSE "null"
        update == [merged EXCEPT !.pitchSeq = seq]
    IN  IF nextOutcome = "HBP" \/ nextOutcome = "Walk"
        THEN LET opening == firstRunForOutcome(nextOutcome, batterNumber)
             IN  [update |-> [update EXCEPT !.outcome = nextOutcome,
                                            !.runs = opening \o later(merged.runs),
                                            !.bases = opening[1].to],
                  out |-> FALSE]
        ELSE IF nextOutcome = "K"
        THEN [update |-> [update EXCEPT !.outcome = "K"], out |-> TRUE]
        ELSE [update |-> update, out |-> FALSE]

\* ------------------------------------------------------------------ outs
\* mutant: the out count is not capped at 3
recordOutUncapped(g, io, inningIdx, batterIdx) ==
    LET newCount == io[inningIdx] + 1
    IN  [inningOuts |-> [io EXCEPT ![inningIdx] = newCount],
         grid |-> [g EXCEPT ![batterIdx][inningIdx].outs = newCount]]

\* ScorecardPage.recordOut: the inning counts and the grid after the two setters
recordOut(g, io, inningIdx, batterIdx) ==
    LET newCount == Min(3, io[inningIdx] + 1)
    IN  [inningOuts |-> [io EXCEPT ![inningIdx] = newCount],
         grid |-> [g EXCEPT ![batterIdx][inningIdx].outs = newCount]]

RECURSIVE outsUpToLoop(_, _, _, _, _)
outsUpToLoop(g, c, r, i, lastSeen) ==
    IF i > r THEN lastSeen
    ELSE LET o == IF i \in DOMAIN g THEN g[i][c].outs ELSE 0
         IN  outsUpToLoop(g, c, r, i + 1, IF o > 0 THEN o ELSE lastSeen)

\* mutant: the largest stamp seen so far instead of the last one
RECURSIVE outsUpToMaxLoop(_, _, _, _, _)
outsUpToMaxLoop(g, c, r, i, seen) ==
    IF i > r THEN seen
    ELSE LET o == IF i \in DOMAIN g THEN g[i][c].outs ELSE 0
         IN  outsUpToMaxLoop(g, c, r, i + 1, IF o > seen THEN o ELSE seen)

outsUpToMax(g, c, r) == outsUpToMaxLoop(g, c, r, 1, 0)

\* inherited outs up to row r in inning c
outsUpTo(g, c, r) == outsUpToLoop(g, c, r, 1, 0)

disabledAfterThirdOut(g, c, r) == outsUpTo(g, c, r) = 3 /\ g[r][c].outs # 3

\* variant of recomputeInningOuts: the number of stamped rows of the column
RECURSIVE recomputeStampedLoop(_, _, _)
recomputeStampedLoop(c, g, r) ==
    IF r > Len(g) THEN 0
    ELSE (IF g[r][c].outs > 0 THEN 1 ELSE 0) + recomputeStampedLoop(c, g, r + 1)

recomputeStamped(c, g) == recomputeStampedLoop(c, g, 1)

RECURSIVE recomputeLoop(_, _, _, _)
recomputeLoop(g, c, r, maxOuts) ==
    IF r > Len(g) THEN maxOuts
    ELSE recomputeLoop(g, c, r + 1, IF g[r][c].outs > maxOuts THEN g[r][c].outs ELSE maxOuts)

recomputeInningOuts(c, g) == recomputeLoop(g, c, 1, 0)

\* ------------------------------------------------------------------ scoreboard
RECURSIVE countHome(_)
countHome(runs) ==
    IF runs = <<>> THEN 0
    ELSE (IF Head(runs).to = 4 THEN 1 ELSE 0) + countHome(Tail(runs))

RECURSIVE inningRunsLoop(_, _, _)
inningRunsLoop(g, c, r) ==
    IF r > Len(g) THEN 0 ELSE countHome(g[r][c].runs) + inningRunsLoop(g, c, r + 1)

\* variant of inningRuns: only the first row of the inning
inningRunsTopRow(g, c) == countHome(g[1][c].runs)

\* team runs of inning c: run segments that end at home
inningRuns(g, c) == inningRunsLoop(g, c, 1)

RECURSIVE teamTotalsLoop(_, _)
teamTotalsLoop(g, c) ==
    IF c > NumInnings THEN 0 ELSE inningRuns(g, c) + teamTotalsLoop(g, c + 1)

\* team total runs: the per-inning runs added up
teamTotals(g) == teamTotalsLoop(g, 1)

\* playerStats, innermost loop: segments of one cell that end at home and are
\* credited to batterNo
RECURSIVE rbiSegs(_, _)
rbiSegs(runs, batterNo) ==
    IF runs = <<>> THEN 0
    ELSE (IF Head(runs).to = 4 /\ Head(runs).byBatter = batterNo THEN 1 ELSE 0)
         + rbiSegs(Tail(runs), batterNo)

\* variant of the rbi row loop: only the batter's own cell of the inning
rbiOwnRow(g, c, rr, batterNo) == rbiSegs(g[batterNo][c].runs, batterNo)

\* playerStats, loop over the rows rr of inning c
RECURSIVE rbiRows(_, _, _, _)
rbiRows(g, c, rr, batterNo) ==
    IF rr > Len(g) THEN 0
    ELSE rbiSegs(g[rr][c].runs, batterNo) + rbiRows(g, c, rr + 1, batterNo)

\* variant of the statline loop: a walk counts as an at-bat
RECURSIVE playerStatsWalkLoop(_, _, _, _)
playerStatsWalkLoop(g, r, c, st) ==
    IF c > NumInnings THEN st
    ELSE LET outc == g[r][c].outcome
         IN  playerStatsWalkLoop(g, r, c + 1,
                 [ab   |-> st.ab + (IF outc # "-" /\ outc # "HBP" THEN 1 ELSE 0),
                  hits |-> st.hits + (IF outc = "1B" \/ outc = "2B" \/ outc = "3B"
                                         \/ outc = "HR" THEN 1 ELSE 0),
                  rbi  |-> st.rbi + rbiRows(g, c, 1, r),
                  bb   |-> st.bb + (IF outc = "Walk" THEN 1 ELSE 0),
                  k    |-> st.k + (IF outc = "K" THEN 1 ELSE 0)])

\* playerStats, loop over the innings c of row r with the running statline
RECURSIVE playerStatsLoop(_, _, _, _)
playerStatsLoop(g, r, c, st) ==
    IF c > NumInnings THEN st
    ELSE LET outc == g[r][c].outcome
         IN  playerStatsLoop(g, r, c + 1,
                 [ab   |-> st.ab + (IF outc # "-" /\ outc # "Walk" /\ outc # "HBP"
                                    THEN 1 ELSE 0),
                  hits |-> st.hits + (IF outc = "1B" \/ outc = "2B" \/ outc = "3B"
                                         \/ outc = "HR" THEN 1 ELSE 0),
                  rbi  |-> st.rbi + rbiRows(g, c, 1, r),
                  bb   |-> st.bb + (IF outc = "Walk" THEN 1 ELSE 0),
                  k    |-> st.k + (IF outc = "K" THEN 1 ELSE 0)])

\* the statline of the batter of row r (batterNo = r)
playerStats(g, r) ==
    playerStatsLoop(g, r, 1, [ab |-> 0, hits |-> 0, rbi |-> 0, bb |-> 0, k |-> 0])

\* ------------------------------------------------------------------ state
VARIABLES
    grid,          \* ScorecardPage grid: row -> inning -> cell
    inningOuts,    \* ScorecardPage inningOuts: inning -> 0..3
    lastClick,     \* BigCell lastClickRef of each cell: kind of the last diamond click
    pendingCause,  \* Diamond pendingCause of each cell: armed batter number or NoBatter
    pendingAward,  \* Diamond pendingAward of each cell: armed award or NoAward
    pendingUntil,  \* Diamond pendingUntil of each cell: ms time the armed number lapses, or 0
    awardUntil,    \* Diamond awardUntil of each cell: ms time the armed award lapses, or 0
    now,           \* Date.now(), in ms since the page was mounted
    teamTab,       \* ScorecardPage teamTab: the active team
    teamName,      \* ScorecardPage teamName
    players,       \* ScorecardPage players: the lineup, one entry per row
    storage,       \* localStorage: team -> item -> parsed value, JUndefined if none
    left,          \* the card of the team that is not active, as it stood when left
    event          \* the handler that ran last: [op, r, c]

vars == <<grid, inningOuts, lastClick, pendingCause, pendingAward, pendingUntil, awardUntil, now,
          teamTab, teamName, players, storage, left, event>>

Event(op, r, c) == [op |-> op, r |-> r, c |-> c]

TeamKey == {"home", "away"}

\* a lineup entry: the text of its name field and the order number in it
Player(base, n) == [base |-> base, n |-> n]

DEFAULT_PLAYERS == [r \in Rows |-> Player("Default", r)]

\* the live card of the active team
Card(tn, ps, g, io) == [teamName |-> tn, players |-> ps, grid |-> g, inningOuts |-> io]

NoCard == Card("", <<>>, <<>>, <<>>)

\* the four items of a team as saveToStorage writes them
Bundle(tn, ps, g, io) ==
    [teamName |-> JString(tn), players |-> JArray(ps), grid |-> stringifyGrid(g),
     inningOuts |-> JArray(io)]

NoBundle ==
    [teamName |-> JUndefined, players |-> JUndefined, grid |-> JUndefined,
     inningOuts |-> JUndefined]

\* the persist effects: after a render they write the state to the items of
\* the active team
Persist == storage' = [storage EXCEPT ![teamTab'] = Bundle(teamName', players', grid', inningOuts')]

\* an edit of the card: team, name and lineup stay, and the card is persisted
CardEdit == UNCHANGED <<teamTab, teamName, players, left>> /\ Persist

\* empty localStorage, after the mount effects: the persist effects wrote the
\* initial state to the home items and loadTeamFromStorage('home') read it back
Init ==
    /\ grid = [r \in Rows |-> makeEmptyRow]
    /\ inningOuts = [c \in Cols |-> 0]
    /\ teamTab = "home"
    /\ teamName = "My Team"
    /\ players = DEFAULT_PLAYERS
    /\ storage = [team \in TeamKey |->
                     IF team = "home"
                     THEN Bundle("My Team", DEFAULT_PLAYERS, [r \in Rows |-> makeEmptyRow],
                                 [c \in Cols |-> 0])
                     ELSE NoBundle]
    /\ left = [team \in TeamKey |-> NoCard]
    /\ lastClick = [r \in Rows |-> [c \in Cols |-> "none"]]
    /\ pendingCause = [r \in Rows |-> [c \in Cols |-> NoBatter]]
    /\ pendingAward = [r \in Rows |-> [c \in Cols |-> NoAward]]
    /\ pendingUntil = [r \in Rows |-> [c \in Cols |-> 0]]
    /\ awardUntil = [r \in Rows |-> [c \in Cols |-> 0]]
    /\ now = 0
    /\ event = Event("init", 0, 0)

\* ------------------------------------------------------------------ actions
\* BigCell usage in ScorecardPage: onChange writes the cell into the grid
SetCell(r, c, updated) == grid' = [grid EXCEPT ![r][c] = updated]

\* variant of the pitch sequence change: the out is stamped on the grid as
\* it was before the cell write
PitchChangeStale(r, c, seq) ==
    LET res == onPitchChange(grid[r][c], seq, r)
        written == [grid EXCEPT ![r][c] = res.update]
    IN  /\ IF res.out
           THEN LET rec == recordOut(grid, inningOuts, c, r)
                IN  grid' = rec.grid /\ inningOuts' = rec.inningOuts
           ELSE grid' = written /\ inningOuts' = inningOuts
        /\ event' = Event("pitch", r, c)
        /\ UNCHANGED <<lastClick, pendingCause, pendingUntil, pendingAward, awardUntil, now>>
        /\ CardEdit

\* a pitch sequence change of cell (r, c): the cell write, then the out for a K
PitchChange(r, c, seq) ==
    LET res == onPitchChange(grid[r][c], seq, r)
        written == [grid EXCEPT ![r][c] = res.update]
    IN  /\ IF res.out
           THEN LET rec == recordOut(written, inningOuts, c, r)
                IN  grid' = rec.grid /\ inningOuts' = rec.inningOuts
           ELSE grid' = written /\ inningOuts' = inningOuts
        /\ event' = Event("pitch", r, c)
        /\ UNCHANGED <<lastClick, pendingCause, pendingUntil, pendingAward, awardUntil, now>>
        /\ CardEdit

\* PitchTracker.add: a palette button appends mark m
PitchAdd(r, c, m) == PitchChange(r, c, Append(grid[r][c].pitchSeq, m))

\* PitchTracker: a click on the i-th mark of the sequence removes it
PitchRemove(r, c, i) ==
    LET safe == grid[r][c].pitchSeq
    IN  /\ i \in 1..Len(safe)
        /\ PitchChange(r, c, SubSeq(safe, 1, i - 1) \o SubSeq(safe, i + 1, Len(safe)))

\* OutcomeSelect: the select fires onChange for an option other than the shown one
OutcomeSelect(r, c, o) ==
    /\ o # grid[r][c].outcome
    /\ SetCell(r, c, onOutcomeChange(grid[r][c], o, r))
    /\ event' = Event("outcome", r, c)
    /\ UNCHANGED <<inningOuts, lastClick, pendingCause, pendingUntil, pendingAward, awardUntil, now>>
    /\ CardEdit

\* an armed number or award lapses this many ms after its key press
ArmWindow == 3000

\* the period, in ms, of the interval timers that clear a lapsed arming
PollEvery == 250

\* Diamond.handleSvgClick on the diamond of cell (r, c); note is the text the
\* alt-click prompt returns (NoText without alt)
DiamondClick(r, c, shiftKey, ctrlKey, note, rapid) ==
    LET cause == IF pendingCause[r][c] # NoBatter THEN pendingCause[r][c] ELSE r
    IN  IF pendingAward[r][c] # NoAward
        THEN LET res == addRunSegment(grid[r][c], lastClick[r][c], rapid, "award",
                                      [byBatter |-> cause, note |-> pendingAward[r][c]])
             IN  /\ SetCell(r, c, res.cell)
                 /\ lastClick' = [lastClick EXCEPT ![r][c] = res.lc]
                 /\ pendingAward' = [pendingAward EXCEPT ![r][c] = NoAward]
                 /\ awardUntil' = [awardUntil EXCEPT ![r][c] = 0]
                 /\ event' = Event("click", r, c)
                 /\ UNCHANGED <<inningOuts, pendingCause, pendingUntil, now>>
                 /\ CardEdit
        ELSE LET kind == IF shiftKey THEN "error" ELSE IF ctrlKey THEN "hit" ELSE "advance"
                 res == addRunSegment(grid[r][c], lastClick[r][c], rapid, kind,
                                      [byBatter |-> cause, note |-> note])
             IN  /\ SetCell(r, c, res.cell)
                 /\ lastClick' = [lastClick EXCEPT ![r][c] = res.lc]
                 /\ pendingCause' = [pendingCause EXCEPT ![r][c] = NoBatter]
                 /\ pendingUntil' = IF pendingCause[r][c] # NoBatter
                                    THEN [pendingUntil EXCEPT ![r][c] = 0] ELSE pendingUntil
                 /\ event' = Event("click", r, c)
                 /\ UNCHANGED <<inningOuts, pendingAward, awardUntil, now>>
                 /\ CardEdit

\* Half a poll period passes, and the interval callbacks that fall due run:
\* each armed Diamond's timer was started by the effect that followed the
\* arming key press and fires every PollEvery ms after it; the callback
\* disarms when Date.now() is past the deadline
Tick ==
    LET t == now + PollEvery \div 2
        lapsed(until) == /\ until # 0
                         /\ (t - (until - ArmWindow)) % PollEvery = 0
                         /\ t > until
    IN  /\ t <= MaxNow
        /\ now' = t
        /\ pendingCause' = [r \in Rows |-> [c \in Cols |->
                IF lapsed(pendingUntil[r][c]) THEN NoBatter ELSE pendingCause[r][c]]]
        /\ pendingUntil' = [r \in Rows |-> [c \in Cols |->
                IF lapsed(pendingUntil[r][c]) THEN 0 ELSE pendingUntil[r][c]]]
        /\ pendingAward' = [r \in Rows |-> [c \in Cols |->
                IF lapsed(awardUntil[r][c]) THEN NoAward ELSE pendingAward[r][c]]]
        /\ awardUntil' = [r \in Rows |-> [c \in Cols |->
                IF lapsed(awardUntil[r][c]) THEN 0 ELSE awardUntil[r][c]]]
        /\ event' = Event("tick", 0, 0)
        /\ UNCHANGED <<grid, inningOuts, lastClick>>
        /\ CardEdit

\* variant of the path reset that keeps the outcome
ResetRunsKeepOutcome(r, c) ==
    /\ SetCell(r, c, [grid[r][c] EXCEPT !.runs = <<>>, !.bases = 0])
    /\ event' = Event("resetRuns", r, c)
    /\ UNCHANGED <<inningOuts, lastClick, pendingCause, pendingUntil, pendingAward, awardUntil, now>>
    /\ CardEdit

\* the digit keys, and Number(e.key) of a digit key
DigitKeys == <<"1", "2", "3", "4", "5", "6", "7", "8", "9">>

IsDigitKey(key) == \E n \in 1..Len(DigitKeys) : DigitKeys[n] = key

Number(key) == CHOOSE n \in 1..Len(DigitKeys) : DigitKeys[n] = key

\* Diamond keydown listeners: every cell's Diamond listens on the window, so a
\* key arms (or Escape disarms) the Diamond of every cell
KeyDown(key) ==
    /\ pendingCause' =
          IF IsDigitKey(key) THEN [r \in Rows |-> [c \in Cols |-> Number(key)]]
          ELSE IF key = "Escape" THEN [r \in Rows |-> [c \in Cols |-> NoBatter]]
          ELSE pendingCause
    /\ pendingUntil' =
          IF IsDigitKey(key) THEN [r \in Rows |-> [c \in Cols |-> now + ArmWindow]]
          ELSE IF key = "Escape" THEN [r \in Rows |-> [c \in Cols |-> 0]]
          ELSE pendingUntil
    /\ pendingAward' =
          IF key \in {"b", "B"} THEN [r \in Rows |-> [c \in Cols |-> "Walk"]]
          ELSE IF key \in {"h", "H"} THEN [r \in Rows |-> [c \in Cols |-> "HBP"]]
          ELSE IF key = "Escape" THEN [r \in Rows |-> [c \in Cols |-> NoAward]]
          ELSE pendingAward
    /\ awardUntil' =
          IF key \in {"b", "B", "h", "H"} THEN [r \in Rows |-> [c \in Cols |-> now + ArmWindow]]
          ELSE IF key = "Escape" THEN [r \in Rows |-> [c \in Cols |-> 0]]
          ELSE awardUntil
    /\ event' = Event("key", 0, 0)
    /\ UNCHANGED <<grid, inningOuts, lastClick, now>>
    /\ CardEdit

\* Diamond onContextMenu -> onResetRuns
ResetRuns(r, c) ==
    /\ SetCell(r, c, [grid[r][c] EXCEPT !.runs = <<>>, !.bases = 0, !.outcome = "-"])
    /\ event' = Event("resetRuns", r, c)
    /\ UNCHANGED <<inningOuts, lastClick, pendingCause, pendingUntil, pendingAward, awardUntil, now>>
    /\ CardEdit

\* the cell's comment textarea
NotesEdit(r, c, txt) ==
    /\ txt # grid[r][c].notes
    /\ SetCell(r, c, [grid[r][c] EXCEPT !.notes = txt])
    /\ event' = Event("notes", r, c)
    /\ UNCHANGED <<inningOuts, lastClick, pendingCause, pendingUntil, pendingAward, awardUntil, now>>
    /\ CardEdit

\* BigCell.updateRunNote on the segment picked by its badge
UpdateRunNote(r, c, index, note) ==
    /\ index \in 1..Len(grid[r][c].runs)
    /\ note # grid[r][c].runs[index].note
    /\ SetCell(r, c, [grid[r][c] EXCEPT !.runs[index].note = note])
    /\ event' = Event("runNote", r, c)
    /\ UNCHANGED <<inningOuts, lastClick, pendingCause, pendingUntil, pendingAward, awardUntil, now>>
    /\ CardEdit

\* OutsDots click -> onNextOut -> recordOut(c, r)
OutClick(r, c) ==
    LET rec == recordOut(grid, inningOuts, c, r)
    IN  /\ grid' = rec.grid
        /\ inningOuts' = rec.inningOuts
        /\ event' = Event("out", r, c)
        /\ UNCHANGED <<lastClick, pendingCause, pendingUntil, pendingAward, awardUntil, now>>
        /\ CardEdit

\* the inning header's reset button
resetInning(c) ==
    /\ inningOuts' = [inningOuts EXCEPT ![c] = 0]
    /\ grid' = [r \in DOMAIN grid |-> [grid[r] EXCEPT ![c].outs = 0]]
    /\ event' = Event("resetInning", 0, c)
    /\ UNCHANGED <<lastClick, pendingCause, pendingUntil, pendingAward, awardUntil, now>>
    /\ CardEdit

\* OutsDots right-click -> onResetFromHereDown
resetOutsFromHereDown(c, startRow) ==
    LET next == [r \in DOMAIN grid |->
                    IF r >= startRow THEN [grid[r] EXCEPT ![c].outs = 0] ELSE grid[r]]
    IN  /\ grid' = next
        /\ inningOuts' = [inningOuts EXCEPT ![c] = recomputeInningOuts(c, next)]
        /\ event' = Event("resetFrom", startRow, c)
        /\ UNCHANGED <<lastClick, pendingCause, pendingUntil, pendingAward, awardUntil, now>>
        /\ CardEdit

\* loadFromStorage: the parsed item, or the fallback when there is no item
loadFromStorage(item, fallback) == IF item.t = "undefined" THEN fallback ELSE item

\* variant of loadTeamFromStorage that leaves the inning outs as they are
loadTeamKeepOuts(store, team, io) ==
    LET tn == loadFromStorage(store[team].teamName,
                              JString(IF team = "home" THEN "Home Team" ELSE "Away Team"))
        storedPlayersRaw == loadFromStorage(store[team].players, JArray(DEFAULT_PLAYERS))
        storedPlayers == IF storedPlayersRaw.t = "array" THEN storedPlayersRaw.v
                         ELSE DEFAULT_PLAYERS
        loadedGridRaw == loadFromStorage(store[team].grid,
                             stringifyGrid([r \in 1..Len(storedPlayers) |-> makeEmptyRow]))
    IN  Card(tn.v, storedPlayers, normalizeGrid(loadedGridRaw, Len(storedPlayers)), io)

\* loadTeamFromStorage(team) on the items `store`: the card it sets; io is the
\* inningOuts state, kept when the stored item is not an array
loadTeamFromStorage(store, team, io) ==
    LET tn == loadFromStorage(store[team].teamName,
                              JString(IF team = "home" THEN "Home Team" ELSE "Away Team"))
        storedPlayersRaw == loadFromStorage(store[team].players, JArray(DEFAULT_PLAYERS))
        storedPlayers == IF storedPlayersRaw.t = "array" THEN storedPlayersRaw.v
                         ELSE DEFAULT_PLAYERS
        loadedGridRaw == loadFromStorage(store[team].grid,
                             stringifyGrid([r \in 1..Len(storedPlayers) |-> makeEmptyRow]))
        storedOuts == loadFromStorage(store[team].inningOuts, JArray([c \in Cols |-> 0]))
    IN  Card(tn.v, storedPlayers, normalizeGrid(loadedGridRaw, Len(storedPlayers)),
             IF storedOuts.t = "array" THEN storedOuts.v ELSE io)

\* A page load.  The useState initialisers read the unprefixed legacy items
\* (this page never writes them: they are absent), so the first render holds
\* the default card on the home tab.  In the render after setMounted(true)
\* the persist effects, declared first, write that card to the home items;
\* then the mount effect calls loadTeamFromStorage('home'), and the persist
\* effects of the next render write what it loaded.
Reload ==
    LET initialGrid == [r \in 1..Len(DEFAULT_PLAYERS) |-> makeEmptyRow]
        first == Card("My Team", DEFAULT_PLAYERS,
                      normalizeGrid(loadFromStorage(JUndefined, stringifyGrid(initialGrid)),
                                    Len(DEFAULT_PLAYERS)),
                      [c \in Cols |-> 0])
        written == [storage EXCEPT !["home"] = Bundle(first.teamName, first.players, first.grid,
                                                     first.inningOuts)]
        card == loadTeamFromStorage(written, "home", first.inningOuts)
    IN  /\ teamTab' = "home"
        /\ teamName' = card.teamName
        /\ players' = card.players
        /\ grid' = card.grid
        /\ inningOuts' = card.inningOuts
        /\ storage' = [written EXCEPT !["home"] = Bundle(card.teamName, card.players, card.grid,
                                                         card.inningOuts)]
        /\ left' = [team \in TeamKey |-> NoCard]
        /\ lastClick' = [r \in Rows |-> [c \in Cols |-> "none"]]
        /\ pendingCause' = [r \in Rows |-> [c \in Cols |-> NoBatter]]
        /\ pendingAward' = [r \in Rows |-> [c \in Cols |-> NoAward]]
        /\ pendingUntil' = [r \in Rows |-> [c \in Cols |-> 0]]
        /\ awardUntil' = [r \in Rows |-> [c \in Cols |-> 0]]
        /\ now' = 0
        /\ event' = Event("reload", 0, 0)

\* a team tab button: saveTeamToStorage(teamTab), setTeamTab(team),
\* loadTeamFromStorage(team); then the persist effects of the next render
SwitchTeam(team) ==
    LET saved == [storage EXCEPT ![teamTab] = Bundle(teamName, players, grid, inningOuts)]
        card == loadTeamFromStorage(saved, team, inningOuts)
    IN  /\ teamTab' = team
        /\ teamName' = card.teamName
        /\ players' = card.players
        /\ grid' = card.grid
        /\ inningOuts' = card.inningOuts
        /\ storage' = [saved EXCEPT ![team] = Bundle(card.teamName, card.players, card.grid,
                                                     card.inningOuts)]
        /\ left' = IF team = teamTab THEN left
                   ELSE [left EXCEPT ![teamTab] = Card(teamName, players, grid, inningOuts),
                                     ![team] = NoCard]
        /\ event' = Event(IF team = teamTab THEN "sameTab" ELSE "switch", 0, 0)
        /\ UNCHANGED <<lastClick, pendingCause, pendingUntil, pendingAward, awardUntil, now>>

\* the team name input
SetTeamName(txt) ==
    /\ txt # teamName
    /\ teamName' = txt
    /\ event' = Event("teamName", 0, 0)
    /\ UNCHANGED <<grid, inningOuts, lastClick, pendingCause, pendingUntil, pendingAward, awardUntil, now, teamTab,
                   players, left>>
    /\ Persist

\* the add-player button, then the effect that keeps grid and lineup in step
AddPlayer ==
    /\ players' = Append(players, Player("Player", Len(players) + 1))
    /\ grid' = normalizeGrid(stringifyGrid(grid), Len(players'))
    /\ event' = Event("addPlayer", 0, 0)
    /\ UNCHANGED <<inningOuts, lastClick, pendingCause, pendingUntil, pendingAward, awardUntil, now, teamTab, teamName, left>>
    /\ Persist

\* the remove-last button, then the effect that keeps grid and lineup in step
RemoveLast ==
    /\ players' = IF Len(players) > 1 THEN SubSeq(players, 1, Len(players) - 1) ELSE players
    /\ grid' = normalizeGrid(stringifyGrid(grid), Len(players'))
    /\ event' = Event("removeLast", 0, 0)
    /\ UNCHANGED <<inningOuts, lastClick, pendingCause, pendingUntil, pendingAward, awardUntil, now, teamTab, teamName, left>>
    /\ Persist

\* the Reset button: resetAll, with the answer given to its confirm dialog
resetAll(confirmed) ==
    /\ grid' = IF confirmed THEN [r \in 1..Len(players) |-> makeEmptyRow] ELSE grid
    /\ event' = Event(IF confirmed THEN "resetAll" ELSE "resetCancelled", 0, 0)
    /\ UNCHANGED <<inningOuts, lastClick, pendingCause, pendingUntil, pendingAward, awardUntil, now>>
    /\ CardEdit

\* ------------------------------------------------------------------ specifications
\* The plate appearance that the single-cell specifications score: the last
\* batter of the order in the first inning.  Every BigCell runs the same
\* handlers; only batterNumber differs.
AtBat(r, c) == r = NumRows /\ c = 1

\* Pitch counting: the pitch tracker alone.
CountNext ==
    \/ \E r \in Rows, c \in Cols, m \in PitchMark :
          /\ AtBat(r, c)
          /\ Len(grid[r][c].pitchSeq) < MaxCountLen
          /\ PitchAdd(r, c, m)
    \/ \E r \in Rows, c \in Cols, i \in 1..MaxCountLen :
          AtBat(r, c) /\ PitchRemove(r, c, i)

SpecCount == Init /\ [][CountNext]_vars

\* Pitch entry: the pitch tracker and the outcome select.
PitchNext ==
    \/ \E r \in Rows, c \in Cols, m \in PitchMark :
          /\ AtBat(r, c)
          /\ Len(grid[r][c].pitchSeq) < MaxPitches
          /\ PitchAdd(r, c, m)
    \/ \E r \in Rows, c \in Cols, i \in 1..MaxPitches :
          AtBat(r, c) /\ PitchRemove(r, c, i)
    \/ \E r \in Rows, c \in Cols, o \in Outcome :
          AtBat(r, c) /\ OutcomeSelect(r, c, o)

SpecPitch == Init /\ [][PitchNext]_vars

\* Path building: the diamond with its modifiers and rapid clicks, the outcome
\* select and the path reset.
PathNext ==
    \/ \E r \in Rows, c \in Cols, shiftKey \in BOOLEAN, ctrlKey \in BOOLEAN,
          rapid \in BOOLEAN :
          /\ AtBat(r, c)
          /\ DiamondClick(r, c, shiftKey, ctrlKey, NoText, rapid)
          /\ Len(grid'[r][c].runs) <= MaxSegs
    \/ \E r \in Rows, c \in Cols, o \in Outcome :
          AtBat(r, c) /\ OutcomeSelect(r, c, o)
    \/ \E r \in Rows, c \in Cols : AtBat(r, c) /\ ResetRuns(r, c)

SpecPath == Init /\ [][PathNext]_vars

\* Awards: balls and dead balls are pitched, the runner is moved by plain
\* clicks, outcomes are selected and the path is reset.
AwardNext ==
    \/ \E r \in Rows, c \in Cols, m \in {"B", "D"} :
          /\ AtBat(r, c)
          /\ Len(grid[r][c].pitchSeq) < MaxAwardPitches
          /\ PitchAdd(r, c, m)
    \/ \E r \in Rows, c \in Cols, rapid \in BOOLEAN :
          /\ AtBat(r, c)
          /\ DiamondClick(r, c, FALSE, FALSE, NoText, rapid)
          /\ Len(grid'[r][c].runs) <= MaxSegs
    \/ \E r \in Rows, c \in Cols, o \in Outcome :
          AtBat(r, c) /\ OutcomeSelect(r, c, o)
    \/ \E r \in Rows, c \in Cols : AtBat(r, c) /\ ResetRuns(r, c)

SpecAward == Init /\ [][AwardNext]_vars

\* Out tracking: out clicks and out resets anywhere on the card.
Stamped(g) == Cardinality({rc \in (DOMAIN g) \X Cols : g[rc[1]][rc[2]].outs > 0})

OutsNext ==
    \/ \E r \in Rows, c \in Cols : OutClick(r, c) /\ Stamped(grid') <= MaxStamped
    \/ \E c \in Cols : resetInning(c)
    \/ \E r \in Rows, c \in Cols : resetOutsFromHereDown(c, r)

SpecOuts == Init /\ [][OutsNext]_vars

\* Path reset: a scored plate appearance (pitches, clicks, outcome, comment)
\* whose path is reset, with outs recorded anywhere in its inning.
ResetNext ==
    \/ \E r \in Rows, c \in Cols, m \in {"B", "CS"} :
          /\ AtBat(r, c)
          /\ Len(grid[r][c].pitchSeq) < MaxResetPitches
          /\ PitchAdd(r, c, m)
    \/ \E r \in Rows, c \in Cols :
          /\ AtBat(r, c)
          /\ DiamondClick(r, c, FALSE, FALSE, NoText, FALSE)
          /\ Len(grid'[r][c].runs) <= MaxSegs
    \/ \E r \in Rows, c \in Cols, o \in {"1B", "Out"} :
          AtBat(r, c) /\ OutcomeSelect(r, c, o)
    \/ \E r \in Rows, c \in Cols, txt \in Texts :
          AtBat(r, c) /\ NotesEdit(r, c, txt)
    \/ \E r \in Rows, c \in Cols, rr \in Rows : AtBat(r, c) /\ OutClick(rr, c)
    \/ \E r \in Rows, c \in Cols : AtBat(r, c) /\ ResetRuns(r, c)

SpecReset == Init /\ [][ResetNext]_vars

\* Scoring: triples and home runs are selected and runners are moved by plain
\* clicks, credited to the batter whose digit key was pressed.
\* the run segments of the whole grid, as <<row, inning, index>>
SegsOf(g) ==
    UNION {{<<rc[1], rc[2], i>> : i \in 1..Len(g[rc[1]][rc[2]].runs)} :
              rc \in Rows \X Cols}

GridSegs(g) == Cardinality(SegsOf(g))

\* the plate appearances that the scoring specification scores: the whole
\* first inning and the last batter's second inning
ScoreCell(r, c) == c = 1 \/ (r = NumRows /\ c = 2)

ScoreNext ==
    \/ \E n \in Rows : KeyDown(DigitKeys[n])
    \/ \E r \in Rows, c \in Cols :
          /\ ScoreCell(r, c)
          /\ DiamondClick(r, c, FALSE, FALSE, NoText, FALSE)
          /\ GridSegs(grid') <= MaxGridSegs
    \/ \E r \in Rows, c \in Cols, o \in {"3B", "HR"} :
          /\ ScoreCell(r, c)
          /\ OutcomeSelect(r, c, o)
          /\ GridSegs(grid') <= MaxGridSegs

SpecScore == Init /\ [][ScoreNext]_vars

\* Batting line: the outcomes of the last batter's plate appearances are
\* selected, inning by inning.
BattingNext ==
    \E r \in Rows, c \in Cols, o \in Outcome :
        r = NumRows /\ OutcomeSelect(r, c, o)

SpecBatting == Init /\ [][BattingNext]_vars

\* Two teams: the card of the active team is edited (team name, lineup, outs
\* of the leadoff batter's first plate appearance) and the team tabs are
\* clicked.
TeamNext ==
    \/ \E team \in TeamKey : SwitchTeam(team)
    \/ SetTeamName("T")
    \/ Len(players) < NumRows /\ AddPlayer
    \/ RemoveLast
    \/ OutClick(1, 1)

SpecTeam == Init /\ [][TeamNext]_vars

\* Stored cells as another writer of localStorage may have left them: absent,
\* not an object, or an object whose fields are absent (JUndefined), of the
\* wrong type, or of the right type in or out of range.
RawCells ==
    {JUndefined, JNull, JNumber(5), JString("x"), JArray(<<>>)}
    \cup
    {JObject([pitchSeq |-> ps, outcome |-> oc, bases |-> bs, outs |-> os,
              notes |-> ns, runs |-> rs]) :
        ps \in {JUndefined, JString("B"), JArray(<<"B">>)},
        oc \in {JUndefined, JNull, JString("HR"), JString("??")},
        bs \in {JUndefined, JString("2"), JNumber(2), JNumber(7)},
        os \in {JUndefined, JNumber(1), JNumber(9)},
        ns \in {JUndefined, JNumber(0), JString("n")},
        rs \in {JUndefined, JString("x"), JArray(<<>>)}}

\* Stored grids: not an array, no rows, a row that is not an array, and a
\* single short row that holds one stored cell
RawGrids ==
    {JString("x"), JArray(<<>>), JArray(<<JNumber(1)>>)}
    \cup {JArray(<<JArray(<<raw>>)>>) : raw \in RawCells}

\* another writer sets the grid item of a team
ForeignWrite(team, raw) ==
    /\ storage' = [storage EXCEPT ![team].grid = raw]
    /\ event' = Event("foreign", 0, 0)
    /\ UNCHANGED <<grid, inningOuts, lastClick, pendingCause, pendingUntil, pendingAward, awardUntil, now, teamTab,
                   teamName, players, left>>

\* Loading: the grid item of the team that was never opened is written from
\* outside, and the team tabs load it.
LoadNext ==
    \/ \E team \in TeamKey, raw \in RawGrids :
          /\ storage[team].grid.t = "undefined"
          /\ ForeignWrite(team, raw)
    \/ \E team \in TeamKey : SwitchTeam(team)

SpecLoad == Init /\ [][LoadNext]_vars

\* Restart: outs are recorded anywhere on the card and the card is reset.
RestartNext ==
    \/ \E r \in Rows, c \in Cols : OutClick(r, c) /\ Stamped(grid') <= MaxStamped
    \/ \E confirmed \in BOOLEAN : resetAll(confirmed)

SpecRestart == Init /\ [][RestartNext]_vars

\* The out counts of one inning under everything that writes them or the
\* grid: out clicks, called third strikes, the inning reset, the partial
\* reset, the Reset button, lineup changes and team switches.  The away
\* card is scored with out clicks only.
InningNext ==
    \/ \E r \in DOMAIN grid : OutClick(r, 1) /\ Stamped(grid') <= MaxStamped
    \/ \E team \in TeamKey : SwitchTeam(team)
    \/ teamTab = "home" /\ Len(grid[1][1].pitchSeq) < 3 /\ PitchAdd(1, 1, "CS")
    \/ teamTab = "home" /\ resetInning(1)
    \/ \E r \in DOMAIN grid : teamTab = "home" /\ resetOutsFromHereDown(1, r)
    \/ \E confirmed \in BOOLEAN : teamTab = "home" /\ resetAll(confirmed)
    \/ teamTab = "home" /\ Len(players) < NumRows /\ AddPlayer
    \/ teamTab = "home" /\ RemoveLast

SpecInning == Init /\ [][InningNext]_vars

\* Arming: numbers and awards are armed and disarmed from the keyboard and
\* the diamonds of the first inning are clicked, all within one instant.
ArmNext ==
    \/ \E key \in {"1", "b", "h", "Escape"} : KeyDown(key)
    \/ \E r \in Rows, rapid \in BOOLEAN :
          /\ DiamondClick(r, 1, FALSE, FALSE, NoText, rapid)
          /\ GridSegs(grid') <= MaxGridSegs

SpecArm == Init /\ [][ArmNext]_vars

\* Expiry: keys are pressed in the first LastKeyAt ms, the last batter's
\* diamond in the first inning is clicked at any time, and time passes.
ExpiryNext ==
    \/ \E key \in {"1", "b", "Escape"} : now <= LastKeyAt /\ KeyDown(key)
    \/ /\ DiamondClick(NumRows, 1, FALSE, FALSE, NoText, FALSE)
       /\ GridSegs(grid') <= MaxGridSegs
    \/ Tick

SpecExpiry == Init /\ [][ExpiryNext]_vars

\* Strikeouts: strikes, fouls and dead balls are pitched to the last batter
\* and taken back, while outs are recorded for the first batter.
StrikeoutNext ==
    \/ \E m \in {"CS", "F", "D"} :
          /\ Len(grid[NumRows][1].pitchSeq) < MaxPitches
          /\ PitchAdd(NumRows, 1, m)
    \/ \E i \in 1..MaxPitches : PitchRemove(NumRows, 1, i)
    \/ OutClick(1, 1)

SpecStrikeout == Init /\ [][StrikeoutNext]_vars

\* Page loads: outs are recorded in the first inning of either team's card,
\* the team is renamed, and the page is loaded again.
ReloadNext ==
    \/ \E r \in Rows : OutClick(r, 1) /\ Stamped(grid') <= MaxStamped
    \/ \E team \in TeamKey : SwitchTeam(team)
    \/ SetTeamName("T")
    \/ Reload

SpecReload == Init /\ [][ReloadNext]_vars

\* Append-only pitching: marks are added to the last batter's plate
\* appearance in the first inning and nothing else is touched.
AppendNext ==
    \E m \in PitchMark :
        /\ Len(grid[NumRows][1].pitchSeq) < MaxCountLen
        /\ PitchAdd(NumRows, 1, m)

SpecAppend == Init /\ [][AppendNext]_vars

\* Out clicks only: outs are recorded anywhere on the empty card and never
\* reset.
ClickOutsNext ==
    \E r \in Rows, c \in Cols : OutClick(r, c) /\ Stamped(grid') <= MaxStamped

SpecClickOuts == Init /\ [][ClickOutsNext]_vars

Next == CountNext \/ PitchNext \/ PathNext \/ AwardNext \/ OutsNext \/ ResetNext \/ ScoreNext \/ BattingNext \/ TeamNext \/ LoadNext \/ RestartNext \/ InningNext \/ ArmNext \/ ExpiryNext \/ StrikeoutNext \/ ReloadNext \/ AppendNext \/ ClickOutsNext

Spec == Init /\ [][Next]_vars

\* ------------------------------------------------------------------ claims
\* the step just taken was the handler op of cell (r, c)
Ran(op, r, c) == event' = Event(op, r, c)

\* C1: in every reachable state of a cell, bases equals the `to` of the last
\* segment of runs, or 0 when runs is empty.
C1_BasesIsLastTo ==
    \A r \in Rows, c \in Cols :
        LET cell == grid[r][c]
        IN  cell.bases = IF Len(cell.runs) = 0 THEN 0 ELSE cell.runs[Len(cell.runs)].to

\* C2: after every pitch-sequence change the outcome follows the first-match
\* precedence whatever it was before: Strikeout when the new sequence has 3
\* strikes, otherwise HBP when it holds a Dead mark, otherwise Walk when it has
\* 4 balls, otherwise the outcome the cell had before the change.
C2_AutoOutcomePrecedence ==
    [][\A r \in Rows, c \in Cols :
          Ran("pitch", r, c) =>
              LET seq == grid'[r][c].pitchSeq
              IN  grid'[r][c].outcome =
                      IF countStrikes(seq) >= 3 THEN "K"
                      ELSE IF hasDeadBall(seq) THEN "HBP"
                      ELSE IF countBalls(seq) >= 4 THEN "Walk"
                      ELSE grid[r][c].outcome]_vars

\* C3: a pitch update that leaves a sequence with 3 qualifying strikes leaves
\* the outcome Strikeout, and it records an out (inning count raised by one up
\* to 3, stamped on the cell) exactly when it changes the outcome to Strikeout.
C3_StrikeoutRecordsOneOut ==
    [][\A r \in Rows, c \in Cols :
          Ran("pitch", r, c) =>
              /\ countStrikes(grid'[r][c].pitchSeq) >= 3 => grid'[r][c].outcome = "K"
              /\ IF grid'[r][c].outcome = "K" /\ grid[r][c].outcome # "K"
                 THEN /\ inningOuts'[c] = Min(3, inningOuts[c] + 1)
                      /\ grid'[r][c].outs = inningOuts'[c]
                 ELSE /\ inningOuts' = inningOuts
                      /\ grid'[r][c].outs = grid[r][c].outs]_vars

\* C4: in every reachable state the runs of a cell form a connected path: each
\* segment starts at the base where the segment before it ends.
C4_PathConnected ==
    \A r \in Rows, c \in Cols :
        LET runs == grid[r][c].runs
        IN  \A i \in 1..(Len(runs) - 1) : runs[i].to = runs[i + 1].from

\* C5: a diamond click on a cell whose path already ends at base 4 changes
\* neither runs nor bases nor the inning's run count.
C5_ClickAtHomeClamped ==
    [][\A r \in Rows, c \in Cols :
          LET runs == grid[r][c].runs
          IN  (Ran("click", r, c) /\ Len(runs) > 0 /\ runs[Len(runs)].to = 4) =>
                  /\ grid'[r][c].runs = runs
                  /\ grid'[r][c].bases = grid[r][c].bases
                  /\ inningRuns(grid', c) = inningRuns(grid, c)]_vars

\* C6: selecting 1B/2B/3B/HR makes the first segment 0->N of kind hit with
\* N = 1/2/3/4, tagged with the cell's batting-order number; reading the outcome
\* back from that path gives the selected outcome; on a cell without a path HR
\* gives runs = [0->4 hit] and bases = 4.
C6_HitOutcomeRoundTrip ==
    [][\A r \in Rows, c \in Cols :
          LET o == grid'[r][c].outcome
              runs == grid'[r][c].runs
              n == IF o = "1B" THEN 1 ELSE IF o = "2B" THEN 2 ELSE IF o = "3B" THEN 3 ELSE 4
          IN  (Ran("outcome", r, c) /\ o \in {"1B", "2B", "3B", "HR"}) =>
                  /\ Len(runs) > 0
                  /\ runs[1] = [from |-> 0, to |-> n, kind |-> "hit", byBatter |-> r,
                                note |-> NoText, award |-> NoAward]
                  /\ \A prev \in Outcome : maybeSyncOutcomeFromRuns(runs, prev) = o
                  /\ (o = "HR" /\ grid[r][c].runs = <<>>) =>
                         (Len(runs) = 1 /\ grid'[r][c].bases = 4)]_vars

\* C6 witness: HR was selected on a cell without a path
C6_Witness ==
    \E r \in Rows, c \in Cols :
        /\ event = Event("outcome", r, c)
        /\ grid[r][c].outcome = "HR"
        /\ Len(grid[r][c].runs) = 1
        /\ grid[r][c].runs[1].to = 4
        /\ grid[r][c].bases = 4

\* C7: when a pitch update changes the outcome to Walk or HBP, or Walk or HBP
\* is selected, the new path is one award segment 0->1 of that type, tagged with
\* the cell's batting-order number, followed by exactly the old segments with
\* from > 0, unchanged and in their old order; the fourth ball on an otherwise
\* empty cell gives Walk, runs = [0->1 award Walk] and bases = 1.
C7_AwardReplacesOpening ==
    [][\A r \in Rows, c \in Cols :
          LET old == grid[r][c].runs
              new == grid'[r][c].runs
              o == grid'[r][c].outcome
              keep == {i \in 1..Len(old) : old[i].from > 0}
              rank(i) == Cardinality({k \in keep : k <= i})
          IN  /\ ( /\ o \in {"Walk", "HBP"}
                   /\ \/ Ran("pitch", r, c) /\ grid[r][c].outcome # o
                      \/ Ran("outcome", r, c) ) =>
                     /\ Len(new) = 1 + Cardinality(keep)
                     /\ new[1] = [from |-> 0, to |-> 1, kind |-> "award", byBatter |-> r,
                                  note |-> NoText, award |-> o]
                     /\ \A i \in keep : new[1 + rank(i)] = old[i]
              /\ ( /\ Ran("pitch", r, c)
                   /\ grid[r][c] = [EmptyCell EXCEPT !.pitchSeq = <<"B", "B", "B">>]
                   /\ grid'[r][c].pitchSeq = <<"B", "B", "B", "B">> ) =>
                     /\ o = "Walk"
                     /\ Len(new) = 1
                     /\ new[1].award = "Walk"
                     /\ grid'[r][c].bases = 1]_vars

\* C7 witness: the fourth ball made the outcome Walk on a path that keeps two
\* later segments behind the award
C7_Witness ==
    \E r \in Rows, c \in Cols :
        /\ event = Event("pitch", r, c)
        /\ grid[r][c].outcome = "Walk"
        /\ grid[r][c].pitchSeq = <<"B", "B", "B", "B">>
        /\ Len(grid[r][c].runs) = 3
        /\ grid[r][c].runs[1].kind = "award"
        /\ grid[r][c].runs[2].from = 1
        /\ grid[r][c].runs[3].from = 2

\* C8: for every pitch sequence strikeCount is in 0..3 and follows its prefix:
\* a called or swinging strike adds one (up to 3), a Foul adds one only while
\* the count is below 2, a Ball or Dead mark adds nothing; ballCount is the
\* number of Ball marks and hasDeadBall says whether a Dead mark occurs; the
\* empty sequence gives 0, 0, FALSE.
C8_CountEngine ==
    /\ countStrikes(<<>>) = 0 /\ countBalls(<<>>) = 0 /\ ~hasDeadBall(<<>>)
    /\ \A r \in Rows, c \in Cols :
          LET seq == grid[r][c].pitchSeq
              n == Len(seq)
              pre == SubSeq(seq, 1, n - 1)
              was == countStrikes(pre)
          IN  /\ countStrikes(seq) \in 0..3
              /\ countBalls(seq) = Cardinality({i \in 1..n : seq[i] = "B"})
              /\ hasDeadBall(seq) <=> "D" \in {seq[i] : i \in 1..n}
              /\ n > 0 =>
                    countStrikes(seq) =
                        IF seq[n] \in {"CS", "SS"} THEN Min(3, was + 1)
                        ELSE IF seq[n] = "F" /\ was < 2 THEN was + 1
                        ELSE was

\* C8 witness: a Foul was appended at two strikes and the count stayed at 2
C8_Witness ==
    \E r \in Rows, c \in Cols :
        LET seq == grid[r][c].pitchSeq
        IN  /\ event = Event("pitch", r, c)
            /\ Len(seq) = 4
            /\ seq[4] = "F"
            /\ countStrikes(SubSeq(seq, 1, 3)) = 2
            /\ countStrikes(seq) = 2

\* C9: an out click on (r, c) sets inningOuts[c] to min(3, previous + 1) and
\* stamps that value on the cell's outs, changing nothing else of that cell, no
\* other cell and no other inning's count; every inning count and every outs
\* stamp stays within 0..3.
C9_RecordOutClamped ==
    [][/\ \A c \in Cols : inningOuts'[c] \in 0..3
       /\ \A r \in Rows, c \in Cols : grid'[r][c].outs \in 0..3
       /\ \A r \in Rows, c \in Cols :
             Ran("out", r, c) =>
                 /\ inningOuts'[c] = IF inningOuts[c] + 1 > 3 THEN 3 ELSE inningOuts[c] + 1
                 /\ grid'[r][c] = [grid[r][c] EXCEPT !.outs = inningOuts'[c]]
                 /\ \A cc \in Cols \ {c} : inningOuts'[cc] = inningOuts[cc]
                 /\ \A rr \in Rows, cc \in Cols :
                       <<rr, cc>> # <<r, c>> => grid'[rr][cc] = grid[rr][cc]]_vars

\* C9 witness: an out click after the third out: two cells of the inning carry
\* the stamp 3, so the click that stamped the second one found the count at 3
C9_Witness ==
    \E r \in Rows, rr \in Rows, c \in Cols :
        /\ r # rr
        /\ event = Event("out", r, c)
        /\ inningOuts[c] = 3
        /\ grid[r][c].outs = 3
        /\ grid[rr][c].outs = 3

\* C10: outsUpTo(c, r) is the outs stamp of the last row i <= r of column c
\* whose stamp is nonzero, and 0 when there is none.
C10_OutsUpToLastStamp ==
    \A c \in Cols, r \in Rows :
        LET stamped == {i \in 1..r : grid[i][c].outs > 0}
        IN  outsUpTo(grid, c, r) =
                IF stamped = {} THEN 0
                ELSE grid[CHOOSE i \in stamped : \A j \in stamped : j <= i][c].outs

\* C10 witness: a later row carries a smaller nonzero stamp than an earlier
\* row, and outsUpTo returns the later, smaller one
C10_Witness ==
    \E c \in Cols, r1 \in Rows, r2 \in Rows :
        /\ r1 < r2
        /\ grid[r2][c].outs > 0
        /\ grid[r1][c].outs > grid[r2][c].outs
        /\ \A i \in (r2 + 1)..NumRows : grid[i][c].outs = 0
        /\ outsUpTo(grid, c, NumRows) = grid[r2][c].outs

\* C11: a partial reset from row r downward in column c zeroes the outs of
\* every row >= r of that column, leaves the rows above r and every other
\* column as they were, and sets inningOuts[c] to the maximum outs stamp that
\* remains in column c (so never above that maximum).
C11_PartialReset ==
    [][\A r \in Rows, c \in Cols :
          Ran("resetFrom", r, c) =>
              /\ \A rr \in Rows :
                    grid'[rr][c] = IF rr >= r THEN [grid[rr][c] EXCEPT !.outs = 0]
                                   ELSE grid[rr][c]
              /\ \A rr \in Rows, cc \in Cols \ {c} : grid'[rr][cc] = grid[rr][cc]
              /\ \E rr \in Rows : inningOuts'[c] = grid'[rr][c].outs
              /\ \A rr \in Rows : inningOuts'[c] >= grid'[rr][c].outs]_vars

\* C11 witness: a partial reset below the first row left that row's stamp 2 as
\* the inning's count while the other inning still stands at 1
C11_Witness ==
    \E c \in Cols, cc \in Cols :
        /\ cc # c
        /\ event = Event("resetFrom", 2, c)
        /\ grid[1][c].outs = 2
        /\ inningOuts[c] = 2
        /\ inningOuts[cc] = 1

\* C12: the path reset of a cell empties runs, sets bases to 0 and the outcome
\* to none, and leaves the cell's pitch sequence, outs and notes, every other
\* cell and every inning's out count unchanged.
C12_PathResetFrame ==
    [][\A r \in Rows, c \in Cols :
          Ran("resetRuns", r, c) =>
              /\ grid'[r][c].runs = <<>>
              /\ grid'[r][c].bases = 0
              /\ grid'[r][c].outcome = "-"
              /\ grid'[r][c].pitchSeq = grid[r][c].pitchSeq
              /\ grid'[r][c].outs = grid[r][c].outs
              /\ grid'[r][c].notes = grid[r][c].notes
              /\ \A rr \in Rows, cc \in Cols :
                    <<rr, cc>> # <<r, c>> => grid'[rr][cc] = grid[rr][cc]
              /\ inningOuts' = inningOuts]_vars

\* C12 witness: the path of a clicked cell was reset; the cell still carries
\* its pitches, its out stamp and its comment, and another cell its stamp
C12_Witness ==
    \E r \in Rows, c \in Cols, rr \in Rows :
        /\ rr # r
        /\ event = Event("resetRuns", r, c)
        /\ lastClick[r][c] # "none"
        /\ grid[r][c].runs = <<>>
        /\ grid[r][c].pitchSeq # <<>>
        /\ grid[r][c].outs > 0
        /\ grid[r][c].notes # NoText
        /\ grid[rr][c].outs > 0
        /\ inningOuts[c] > 0

\* C13: for every batting-order number N the rbi of N's statline is the number
\* of run segments of the whole grid, any row and any inning, that end at home
\* and are credited to N, each counted once, those in other batters' cells
\* included.
C13_RbiCountsCreditedRuns ==
    \A N \in Rows :
        playerStats(grid, N).rbi =
            Cardinality({rci \in SegsOf(grid) :
                LET seg == grid[rci[1]][rci[2]].runs[rci[3]]
                IN  seg.to = 4 /\ seg.byBatter = N})

\* C13 witness: a batter has one run batted in, scored in the cell of another
\* batter whose own hit opened the path and who has none
C13_Witness ==
    \E N \in Rows, r \in Rows, c \in Cols :
        /\ r # N
        /\ playerStats(grid, N).rbi = 1
        /\ playerStats(grid, r).rbi = 0
        /\ Len(grid[r][c].runs) = 2
        /\ grid[r][c].runs[1].byBatter = r
        /\ grid[r][c].runs[2].to = 4
        /\ grid[r][c].runs[2].byBatter = N

\* the innings in which the cell of row r has an outcome of the set outcomes
InningsWith(r, outcomes) == {c \in Cols : grid[r][c].outcome \in outcomes}

\* C14: for every batter row, ab is the number of the row's cells whose outcome
\* is none of {none, Walk, HBP}, hits the number whose outcome is 1B, 2B, 3B or
\* HR, bb the number whose outcome is Walk and k the number whose outcome is K;
\* hence hits + k <= ab.
C14_BattingLine ==
    \A r \in Rows :
        LET st == playerStats(grid, r)
        IN  /\ st.ab = Cardinality(InningsWith(r, Outcome \ {"-", "Walk", "HBP"}))
            /\ st.hits = Cardinality(InningsWith(r, {"1B", "2B", "3B", "HR"}))
            /\ st.bb = Cardinality(InningsWith(r, {"Walk"}))
            /\ st.k = Cardinality(InningsWith(r, {"K"}))
            /\ st.hits + st.k <= st.ab

\* C14 witness: a batter with a walk in one inning and a strikeout in another:
\* one at-bat, no hit, one walk, one strikeout
C14_Witness ==
    \E r \in Rows :
        /\ event.op = "outcome"
        /\ InningsWith(r, {"Walk"}) # {}
        /\ InningsWith(r, {"K"}) # {}
        /\ playerStats(grid, r) = [ab |-> 1, hits |-> 0, rbi |-> 0, bb |-> 1, k |-> 1]

\* C15: the team runs of inning c are the number of run segments that end at
\* home over all rows of column c, and the team total is the sum of the
\* per-inning runs (the number of such segments in the whole grid); selecting
\* HR on an empty cell raises that inning's runs by exactly 1 and no other
\* inning's.
C15_TeamRuns ==
    [][/\ \A c \in Cols :
             inningRuns(grid', c) =
                 Cardinality({rci \in SegsOf(grid') :
                     rci[2] = c /\ grid'[rci[1]][c].runs[rci[3]].to = 4})
       /\ teamTotals(grid') =
             Cardinality({rci \in SegsOf(grid') :
                 grid'[rci[1]][rci[2]].runs[rci[3]].to = 4})
       /\ \A r \in Rows, c \in Cols :
             ( /\ Ran("outcome", r, c)
               /\ grid[r][c] = EmptyCell
               /\ grid'[r][c].outcome = "HR" ) =>
                 /\ inningRuns(grid', c) = inningRuns(grid, c) + 1
                 /\ \A cc \in Cols \ {c} : inningRuns(grid', cc) = inningRuns(grid, cc)
                 /\ teamTotals(grid') = teamTotals(grid) + 1]_vars

\* C15 witness: HR was selected on a cell of an inning in which another row had
\* already scored; the inning shows 2 runs and the team total is 2
C15_Witness ==
    \E r \in Rows, rr \in Rows, c \in Cols :
        /\ rr # r
        /\ event = Event("outcome", r, c)
        /\ grid[r][c] = [EmptyCell EXCEPT !.outcome = "HR", !.bases = 4,
                            !.runs = <<RunSeg(0, 4, "hit", r, NoText, NoAward)>>]
        /\ countHome(grid[rr][c].runs) = 1
        /\ inningRuns(grid, c) = 2
        /\ teamTotals(grid) = 2

\* C16: a team tab saves the card of the current team and loads the other
\* team's: switching back to a team restores its teamName, players, grid and
\* inningOuts exactly as they were when it was left, whatever was edited and
\* switched in between, and a step that neither leaves nor enters a team never
\* alters that team's stored items.
C16_TeamSwitchKeepsEdits ==
    [][/\ \A team \in TeamKey :
             ( /\ Ran("switch", 0, 0)
               /\ teamTab' = team
               /\ teamTab # team
               /\ left[team] # NoCard ) =>
                 Card(teamName', players', grid', inningOuts') = left[team]
       /\ \A team \in TeamKey :
             (team # teamTab /\ team # teamTab') => storage'[team] = storage[team]
       /\ \A team \in TeamKey :
             (Ran("switch", 0, 0) /\ teamTab = team /\ teamTab' # team) =>
                 storage'[team] = Bundle(teamName, players, grid, inningOuts)]_vars

\* C16 witness: back on the home card, restored with the name, the shorter
\* lineup and the two outs it was left with, after the away card was given
\* three outs
C16_Witness ==
    /\ event = Event("switch", 0, 0)
    /\ teamTab = "home"
    /\ teamName = "T"
    /\ Len(players) = NumRows - 1
    /\ inningOuts[1] = 2
    /\ grid[1][1].outs = 2
    /\ left["away"] # NoCard
    /\ left["away"].grid[1][1].outs = 3
    /\ left["away"].inningOuts[1] = 3
    /\ Len(left["away"].players) = NumRows

\* C17: whatever the stored grid item held, the loaded grid has exactly one
\* row per player, each of one cell per inning, and every cell is well-formed:
\* pitchSeq and runs are sequences, outcome is one of the ten outcomes, bases
\* is in 0..4, outs is in 0..3 and notes is text.
C17_LoadedCellsWellFormed ==
    /\ DOMAIN grid = 1..Len(players)
    /\ \A r \in DOMAIN grid :
          /\ DOMAIN grid[r] = Cols
          /\ \A c \in Cols :
                LET cell == grid[r][c]
                IN  /\ DOMAIN cell.pitchSeq = 1..Len(cell.pitchSeq)
                    /\ cell.outcome \in Outcome
                    /\ cell.bases \in 0..4
                    /\ cell.outs \in 0..3
                    /\ cell.notes \in {NoText, "n"}
                    /\ DOMAIN cell.runs = 1..Len(cell.runs)

\* C18: a diamond click of the same kind as the cell's last click, within the
\* merge window, on a non-empty path whose last segment ends below base 4
\* raises that segment's `to` by one and appends nothing; a click on an empty
\* path, of another kind, or outside the window appends one segment
\* from -> from + 1 of the click's kind, starting where the path ends.  So a
\* rapid second plain click after 0->1 gives the single segment 0->2.
C18_RapidClickExtends ==
    [][\A r \in Rows, c \in Cols, shiftKey \in BOOLEAN, ctrlKey \in BOOLEAN,
          rapid \in BOOLEAN :
          (Ran("click", r, c) /\ DiamondClick(r, c, shiftKey, ctrlKey, NoText, rapid)) =>
              LET old == grid[r][c].runs
                  new == grid'[r][c].runs
                  n == Len(old)
                  kind == IF pendingAward[r][c] # NoAward THEN "award"
                          ELSE IF shiftKey THEN "error"
                          ELSE IF ctrlKey THEN "hit" ELSE "advance"
                  again == rapid /\ lastClick[r][c] = kind
              IN  /\ (again /\ n > 0 /\ old[n].to < 4) =>
                         new = [old EXCEPT ![n].to = old[n].to + 1]
                  /\ (n = 0 \/ ~again) =>
                         /\ Len(new) = n + 1
                         /\ SubSeq(new, 1, n) = old
                         /\ new[n + 1].kind = kind
                         /\ new[n + 1].to = new[n + 1].from + 1
                         /\ n = 0 => new[n + 1].from = 0
                         /\ (n > 0 /\ old[n].to < 4) => new[n + 1].from = old[n].to
                  /\ ( /\ again
                       /\ kind = "advance"
                       /\ old = <<RunSeg(0, 1, "advance", r, NoText, NoAward)>> ) =>
                         new = <<RunSeg(0, 2, "advance", r, NoText, NoAward)>>]_vars

\* C18 witness: two rapid plain clicks on an empty path left the single
\* segment 0->2 (advance)
C18_Witness ==
    \E r \in Rows, c \in Cols :
        /\ event = Event("click", r, c)
        /\ lastClick[r][c] = "advance"
        /\ grid[r][c].runs = <<RunSeg(0, 2, "advance", r, NoText, NoAward)>>
        /\ grid[r][c].bases = 2

\* C19: after a confirmed Reset every cell of the grid is empty and every
\* inning's out count is 0, so that the next out recorded on the empty card is
\* stamped 1 in whatever inning it falls.
C19_ResetStartsFresh ==
    [][/\ Ran("resetAll", 0, 0) =>
             /\ \A r \in Rows, c \in Cols : grid'[r][c] = EmptyCell
             /\ \A c \in Cols : inningOuts'[c] = 0
       /\ \A r \in Rows, c \in Cols :
             ( /\ Ran("out", r, c)
               /\ event = Event("resetAll", 0, 0) ) => grid'[r][c].outs = 1]_vars

\* C20: after every diamond click (a new segment or a rapid extension), if the
\* path's first segment starts at 0 with kind hit the outcome is the hit
\* outcome of that segment's `to` (1 1B, 2 2B, 3 3B, 4 HR), and if it starts
\* at 0 with kind award the outcome is its award type (Walk when unset), also
\* when the clicked segment is not the first one.
C20_OutcomeFollowsFirstSegment ==
    [][\A r \in Rows, c \in Cols :
          Ran("click", r, c) =>
              LET first == grid'[r][c].runs[1]
              IN  /\ (first.from = 0 /\ first.kind = "hit") =>
                         grid'[r][c].outcome =
                             <<"1B", "2B", "3B", "HR">>[first.to]
                  /\ (first.from = 0 /\ first.kind = "award") =>
                         grid'[r][c].outcome =
                             IF first.award = NoAward THEN "Walk" ELSE first.award]_vars


\* C21: in every reachable state the out count of an inning is the largest
\* outs stamp of its column: no cell carries more, and a positive count is
\* carried by some cell.
C21_InningOutsIsColumnMax ==
    \A c \in Cols :
        /\ \A r \in DOMAIN grid : grid[r][c].outs <= inningOuts[c]
        /\ inningOuts[c] > 0 => \E r \in DOMAIN grid : grid[r][c].outs = inningOuts[c]


\* C22: a cell beyond the end of its inning (the outs recorded up to its row
\* are 3 and its own stamp is not 3) accepts no scoring edit: a pitch edit, an
\* outcome selection, a diamond click or an out click on it leaves the cell
\* and the inning counts as they were.
C22_ClosedCellFrozen ==
    [][\A r \in Rows, c \in Cols :
          ( /\ disabledAfterThirdOut(grid, c, r)
            /\ \E op \in {"pitch", "outcome", "click", "out"} : Ran(op, r, c) )
          => /\ grid'[r][c] = grid[r][c]
             /\ inningOuts' = inningOuts]_vars


\* C23: immediately after any click on a cell's diamond neither a batter
\* number nor an award remains armed for that diamond, whatever was armed
\* before the click.
C23_ClickConsumesArming ==
    [][\A r \in Rows, c \in Cols :
          Ran("click", r, c) =>
              /\ pendingCause'[r][c] = NoBatter
              /\ pendingAward'[r][c] = NoAward]_vars


\* C24: an armed batter number or award is valid for 3 seconds: a click that
\* applies one happens no later than ArmWindow ms after the key press that
\* armed it, and after Escape nothing of either kind is armed in any diamond.
C24_ArmingLapses ==
    [][/\ \A r \in Rows, c \in Cols :
             Ran("click", r, c) =>
                 /\ pendingCause[r][c] # NoBatter => now <= pendingUntil[r][c]
                 /\ pendingAward[r][c] # NoAward => now <= awardUntil[r][c]
       /\ (Ran("key", 0, 0) /\ KeyDown("Escape")) =>
             \A r \in Rows, c \in Cols :
                 /\ pendingCause'[r][c] = NoBatter
                 /\ pendingAward'[r][c] = NoAward]_vars


\* C25: every run segment of kind award, in any cell of the card, runs from
\* the plate to first base and carries the award type Walk or HBP.
C25_AwardSegmentsOpenThePath ==
    \A r \in Rows, c \in Cols :
        \A i \in 1..Len(grid[r][c].runs) :
            LET seg == grid[r][c].runs[i]
            IN  seg.kind = "award" =>
                    /\ seg.from = 0
                    /\ seg.to = 1
                    /\ seg.award \in {"Walk", "HBP"}


\* the cell of (r, c) and the inning counts after a pitch update to seq that
\* makes the outcome K: the write and the out stamp are both there
C26_Kept(r, c, seq) ==
    ( /\ countStrikes(seq) >= 3
      /\ grid[r][c].outcome # "K" )
    => /\ grid'[r][c].pitchSeq = seq
       /\ grid'[r][c].outcome = "K"
       /\ grid'[r][c].runs = grid[r][c].runs
       /\ grid'[r][c].bases = grid[r][c].bases
       /\ grid'[r][c].notes = grid[r][c].notes
       /\ inningOuts'[c] = Min(3, inningOuts[c] + 1)
       /\ grid'[r][c].outs = inningOuts'[c]

\* C26: a pitch update that makes the outcome K does the cell write and then
\* the out stamp without losing either: afterwards the cell holds the whole
\* new pitch sequence and the outcome K with its runs and bases unchanged,
\* and its outs is the new out count of its inning.
C26_StrikeoutWriteAndStamp ==
    [][\A r \in Rows, c \in Cols :
          /\ \A m \in PitchMark :
                (Ran("pitch", r, c) /\ PitchAdd(r, c, m))
                => C26_Kept(r, c, Append(grid[r][c].pitchSeq, m))
          /\ \A i \in 1..Len(grid[r][c].pitchSeq) :
                (Ran("pitch", r, c) /\ PitchRemove(r, c, i))
                => C26_Kept(r, c, SubSeq(grid[r][c].pitchSeq, 1, i - 1)
                                  \o SubSeq(grid[r][c].pitchSeq, i + 1,
                                            Len(grid[r][c].pitchSeq)))]_vars

\* a pitch has just made a plate appearance with a path a strikeout
C26_Witness ==
    \E r \in Rows, c \in Cols :
        /\ event = Event("pitch", r, c)
        /\ grid[r][c].outcome = "K"
        /\ grid[r][c].runs # <<>>
        /\ countStrikes(grid[r][c].pitchSeq) >= 3
        /\ grid[r][c].outs >= 1
        /\ grid[r][c].outs = inningOuts[c]


\* C27: the persisted card survives a page load: after the page has mounted
\* the grid and the inning counts in memory are those that the home items
\* held before the load, and the home items hold what they held before.
C27_HomeCardSurvivesLoad ==
    [][Ran("reload", 0, 0) =>
          LET stored == loadTeamFromStorage(storage, "home", [c \in Cols |-> 0])
          IN  /\ grid' = stored.grid
              /\ inningOuts' = stored.inningOuts
              /\ storage'["home"] = storage["home"]]_vars


\* C28: while the pitches of a plate appearance are only appended and no
\* outcome is selected by hand, the pitch tracker records at most one out
\* for it, and once its outcome is K it stays K.
C28_OneAutomaticOut ==
    [][\A r \in Rows, c \in Cols :
          Ran("pitch", r, c) =>
              /\ inningOuts'[c] <= 1
              /\ grid'[r][c].outs <= 1
              /\ grid[r][c].outcome = "K" => grid'[r][c].outcome = "K"]_vars


\* C29: on a card whose outs come from out clicks alone, the outs displayed
\* in the last row of an inning are the inning's out count, and the outs
\* displayed down a column never decrease from one row to the next.
C29_DisplayedOutsMonotone ==
    \A c \in Cols :
        /\ outsUpTo(grid, c, NumRows) = inningOuts[c]
        /\ \A r \in 1..(NumRows - 1) : outsUpTo(grid, c, r) <= outsUpTo(grid, c, r + 1)


\* C30: one arming tags one interaction: once the diamond of some cell has
\* consumed an armed number or award, a click on the diamond of another cell
\* does not apply it (the segment gets that cell's own batter number and the
\* kind of the click's modifiers).
C30_ArmingTagsOneClick ==
    [][\A r \in Rows, c \in Cols :
          Ran("click", r, c) =>
              /\ (\E r2 \in Rows, c2 \in Cols : pendingCause[r2][c2] = NoBatter)
                 => pendingCause[r][c] = NoBatter
              /\ (\E r2 \in Rows, c2 \in Cols : pendingAward[r2][c2] = NoAward)
                 => pendingAward[r][c] = NoAward]_vars

====
